---- MODULE Spec2Model ----
\* A model of the to-do dApp client (src/src/App.tsx): the React component
\* TodoDApp, its view state (tasks, events, loading, error, the two inputs),
\* the read path loadTasksAndEvents and the three write handlers createTask,
\* updateTask and completeTask, run against a ledger (the contract behind
\* CONTRACT_ABI) that is the environment.
\*
\* Steps are taken at await granularity: JavaScript runs each handler from one
\* await to the next without interruption, so an action is everything a handler
\* does between two network answers.
EXTENDS Integers, Sequences, FiniteSets, TLC

\* ---------------------------------------------------------------- bounds
MaxWrites == 2      \* write intents accepted over a run
MaxLoads == 1       \* account changes (each starts one load pass)
MaxLogs == 3        \* length of the fetched log in the read-path specification

MaxPasses == MaxLoads + MaxWrites

\* What the user types into the two inputs: strings as sequences of characters.
NewDescs == {<<" ">>, <<" ", "a">>}
EditDescs == {<<" ">>, <<"b">>}

AccountList == <<"0xA", "0xB", "0xC">>

\* ------------------------------------------------------ pure helpers
\* String.prototype.trim on a sequence of characters.
RECURSIVE TrimLeft(_)
TrimLeft(s) ==
  IF s = <<>> THEN s
  ELSE IF Head(s) = " " THEN TrimLeft(Tail(s)) ELSE s
RECURSIVE TrimRight(_)
TrimRight(s) ==
  IF s = <<>> THEN s
  ELSE IF s[Len(s)] = " " THEN TrimRight(SubSeq(s, 1, Len(s) - 1)) ELSE s
Trim(s) == TrimRight(TrimLeft(s))

\* A raw log record as the log fetch returns it.
CreatedLog(i, d, b, h) ==
  [eventName |-> "TaskCreated", args |-> [id |-> i, description |-> d],
   blockNumber |-> b, transactionHash |-> h]
UpdatedLog(i, d, b, h) ==
  [eventName |-> "TaskUpdated", args |-> [id |-> i, description |-> d],
   blockNumber |-> b, transactionHash |-> h]
CompletedLog(i, b, h) ==
  [eventName |-> "TaskCompleted", args |-> [id |-> i],
   blockNumber |-> b, transactionHash |-> h]

\* logs.map(log => ({type, id, blockNumber, transactionHash})): the description
\* line of the object literal is commented out in the source.
ProcessEvent(log) ==
  [type |-> log.eventName, id |-> log.args.id,
   blockNumber |-> log.blockNumber, transactionHash |-> log.transactionHash]
\* A normalizer that skips the records that never carry a description.
ProcessEventsSkipsCompleted(logs) ==
  SelectSeq([i \in 1..Len(logs) |-> ProcessEvent(logs[i])],
            LAMBDA e : e.type # "TaskCompleted")
ProcessEvents(logs) == [i \in 1..Len(logs) |-> ProcessEvent(logs[i])]

\* The comparators handed to Array.prototype.sort: Number(x) keeps the sign of
\* a bigint difference.
EventCmpAscending(a, b) == a.blockNumber - b.blockNumber
EventCmp(a, b) == b.blockNumber - a.blockNumber
TaskCmp(a, b) == a.id - b.id

\* Array.prototype.sort is stable: x goes before the first element that the
\* comparator puts strictly after it.
RECURSIVE InsertEvent(_, _)
InsertEvent(s, x) ==
  IF s = <<>> THEN <<x>>
  ELSE IF EventCmp(Head(s), x) > 0 THEN <<x>> \o s
  ELSE <<Head(s)>> \o InsertEvent(Tail(s), x)
RECURSIVE SortEventsFrom(_, _)
SortEventsFrom(done, rest) ==
  IF rest = <<>> THEN done
  ELSE SortEventsFrom(InsertEvent(done, Head(rest)), Tail(rest))
SortEvents(s) == SortEventsFrom(<<>>, s)

RECURSIVE InsertTask(_, _)
InsertTask(s, x) ==
  IF s = <<>> THEN <<x>>
  ELSE IF TaskCmp(Head(s), x) > 0 THEN <<x>> \o s
  ELSE <<Head(s)>> \o InsertTask(Tail(s), x)
RECURSIVE SortTasksFrom(_, _)
SortTasksFrom(done, rest) ==
  IF rest = <<>> THEN done
  ELSE SortTasksFrom(InsertTask(done, Head(rest)), Tail(rest))
SortTasks(s) == SortTasksFrom(<<>>, s)

\* A scan that takes the id of every record, whatever its event name.
RECURSIVE TaskIdsOfAnyEventFrom(_, _)
TaskIdsOfAnyEventFrom(acc, logs) ==
  IF logs = <<>> THEN acc
  ELSE LET log == Head(logs)
           seen == \E k \in 1..Len(acc) : acc[k] = log.args.id
       IN  IF ~seen
           THEN TaskIdsOfAnyEventFrom(Append(acc, log.args.id), Tail(logs))
           ELSE TaskIdsOfAnyEventFrom(acc, Tail(logs))
TaskIdsOfAnyEvent(logs) == TaskIdsOfAnyEventFrom(<<>>, logs)

\* A scan that collects the ids into an array instead of a Set.
RECURSIVE TaskIdsWithRepeatsFrom(_, _)
TaskIdsWithRepeatsFrom(acc, logs) ==
  IF logs = <<>> THEN acc
  ELSE LET log == Head(logs)
       IN  IF log.eventName = "TaskCreated"
           THEN TaskIdsWithRepeatsFrom(Append(acc, log.args.id), Tail(logs))
           ELSE TaskIdsWithRepeatsFrom(acc, Tail(logs))
TaskIdsWithRepeats(logs) == TaskIdsWithRepeatsFrom(<<>>, logs)

\* new Set<bigint>() filled from the TaskCreated records, then Array.from: the
\* distinct ids in the order of their first TaskCreated record.
RECURSIVE TaskIdsFrom(_, _)
TaskIdsFrom(acc, logs) ==
  IF logs = <<>> THEN acc
  ELSE LET log == Head(logs)
           seen == \E k \in 1..Len(acc) : acc[k] = log.args.id
       IN  IF log.eventName = "TaskCreated" /\ ~seen
           THEN TaskIdsFrom(Append(acc, log.args.id), Tail(logs))
           ELSE TaskIdsFrom(acc, Tail(logs))
TaskIds(logs) == TaskIdsFrom(<<>>, logs)

Range(s) == {s[i] : i \in 1..Len(s)}

\* ------------------------------------------------------------- state
VARIABLES
  account,             \* useState<string>(''): the connected account
  walletClient,        \* useState(null): the signer
  tasks,               \* useState<Task[]>([])
  events,              \* useState<Event[]>([])
  newTaskDescription,  \* useState('')
  editingTask,         \* useState(null): {id, description} of the edit session
  loading,             \* useState(false): the busy flag
  error,               \* useState(''): lastError
  chainLogs,           \* the ledger's log, append-only
  chainTasks,          \* the ledger's tasks, chainTasks[id]
  passes,              \* the invocations of loadTasksAndEvents, in start order
  writes,              \* the invocations of the write handlers, in start order
  eventsPass,          \* which pass made the last setEvents call (0: none)
  tasksPass            \* which pass made the last setTasks call (0: none)

vars == <<account, walletClient, tasks, events, newTaskDescription, editingTask,
          loading, error, chainLogs, chainTasks, passes, writes, eventsPass,
          tasksPass>>
view == <<account, walletClient, tasks, events, newTaskDescription, editingTask,
          loading, error>>
chain == <<chainLogs, chainTasks>>

Null == [null |-> TRUE]
Wallet == [chain |-> "liskSepolia"]   \* createWalletClient({chain, transport})
NoError == [prefix |-> "", message |-> ""]
Failure(prefix, message) == [prefix |-> prefix, message |-> message]

IdlePass ==
  [pc |-> "idle", owner |-> 0, logs |-> <<>>, ids |-> <<>>, results |-> <<>>]
IdleWrite ==
  [pc |-> "idle", kind |-> "none", id |-> 0, description |-> <<>>,
   calls |-> <<>>, tx |-> "none", refresh |-> 0, reported |-> NoError]

Started(f) == {i \in DOMAIN f : f[i].pc # "idle"}
nPasses == Cardinality(Started(passes))
nWrites == Cardinality(Started(writes))
nLoads == Cardinality({p \in Started(passes) : passes[p].owner = 0})

\* The messages a rejected ledger call carries (err.message).
SimulateErrors == {"execution reverted", "HTTP request failed"}
SubmitErrors == {"HTTP request failed"}
ConfirmErrors == {"Timed out while waiting for transaction"}
FetchErrors == {"HTTP request failed"}

Prefix(kind) ==
  CASE kind = "create" -> "Failed to create task: "
    [] kind = "update" -> "Failed to update task: "
    [] kind = "complete" -> "Failed to complete task: "

\* The ledger before the session: a contract with no task yet.
InitChainLogs == <<>>
InitChainTasks == <<>>

InitView ==
  /\ account = ""
  /\ walletClient = Null
  /\ tasks = <<>>
  /\ events = <<>>
  /\ newTaskDescription = <<>>
  /\ editingTask = Null
  /\ loading = FALSE
  /\ error = NoError
  /\ passes = [p \in 1..MaxPasses |-> IdlePass]
  /\ writes = [w \in 1..MaxWrites |-> IdleWrite]
  /\ eventsPass = 0
  /\ tasksPass = 0

Init ==
  /\ InitView
  /\ chainLogs = InitChainLogs
  /\ chainTasks = InitChainTasks

\* ----------------------------------------------------- the read path
\* loadTasksAndEvents up to its first await: setLoading(true), getLogs issued.
BeginPass(owner) == [IdlePass EXCEPT !.pc = "getLogs", !.owner = owner]

\* A batch that yields nothing when any one read failed.
ValidTasksAllOrNothing(ids, results) ==
  LET taskResults == [k \in 1..Len(ids) |-> results[ids[k]]]
  IN  IF \E k \in 1..Len(ids) : taskResults[k] = Null THEN <<>> ELSE taskResults

\* taskResults.filter(task => task !== null), then sort ascending by id.
ValidTasks(ids, results) ==
  LET taskResults == [k \in 1..Len(ids) |-> results[ids[k]]]
  IN  SelectSeq(taskResults, LAMBDA t : t # Null)
ReconstructTasks(ids, results) == SortTasks(ValidTasks(ids, results))

\* A reload whose caller is never resumed.
OwnerNeverReturns(owner) == UNCHANGED writes

\* The write handler's finally block, reached when its awaited reload returns.
OwnerReturns(owner) ==
  IF owner = 0 THEN UNCHANGED writes
  ELSE writes' = [writes EXCEPT ![owner].pc = "done"]

\* The tail of a pass once Promise.all has every answer: setTasks, then the
\* finally block; the awaiting write handler (if any) resumes in the same turn.
FinishPass(p, ids, results) ==
  /\ tasks' = ReconstructTasks(ids, results)
  /\ tasksPass' = p
  /\ loading' = FALSE
  /\ OwnerReturns(passes[p].owner)

\* A pass that adds the fetched events to the feed it finds.
FetchLogsOkAppends(p) ==
  /\ passes[p].pc = "getLogs"
  /\ LET logs == chainLogs
         ids == TaskIds(logs)
     IN  /\ events' = SortEvents(events \o ProcessEvents(logs))
         /\ eventsPass' = p
         /\ IF ids = <<>>
            THEN /\ passes' = [passes EXCEPT ![p].pc = "done", ![p].logs = logs]
                 /\ FinishPass(p, ids, <<>>)
            ELSE /\ passes' = [passes EXCEPT ![p].pc = "reads", ![p].logs = logs,
                                             ![p].ids = ids]
                 /\ UNCHANGED <<tasks, tasksPass, loading, writes>>
  /\ UNCHANGED <<account, walletClient, newTaskDescription, editingTask, error,
                 chain>>

\* getLogs answers: the events are set at once, the point-reads are issued.
FetchLogsOk(p) ==
  /\ passes[p].pc = "getLogs"
  /\ LET logs == chainLogs
         ids == TaskIds(logs)
     IN  /\ events' = SortEvents(ProcessEvents(logs))
         /\ eventsPass' = p
         /\ IF ids = <<>>
            THEN /\ passes' = [passes EXCEPT ![p].pc = "done", ![p].logs = logs]
                 /\ FinishPass(p, ids, <<>>)
            ELSE /\ passes' = [passes EXCEPT ![p].pc = "reads", ![p].logs = logs,
                                             ![p].ids = ids]
                 /\ UNCHANGED <<tasks, tasksPass, loading, writes>>
  /\ UNCHANGED <<account, walletClient, newTaskDescription, editingTask, error,
                 chain>>

\* A catch block that also empties the store.
FetchLogsFailClearsStore(p, message) ==
  /\ passes[p].pc = "getLogs"
  /\ passes' = [passes EXCEPT ![p].pc = "failed"]
  /\ error' = Failure("Failed to load tasks: ", message)
  /\ loading' = FALSE
  /\ tasks' = <<>>
  /\ events' = <<>>
  /\ OwnerReturns(passes[p].owner)
  /\ UNCHANGED <<account, walletClient, newTaskDescription, editingTask, chain,
                 eventsPass, tasksPass>>

\* getLogs rejects: the catch block sets the error, the finally block clears
\* the busy flag; nothing else is assigned.
FetchLogsFail(p, message) ==
  /\ passes[p].pc = "getLogs"
  /\ passes' = [passes EXCEPT ![p].pc = "failed"]
  /\ error' = Failure("Failed to load tasks: ", message)
  /\ loading' = FALSE
  /\ OwnerReturns(passes[p].owner)
  /\ UNCHANGED <<account, walletClient, tasks, events, newTaskDescription,
                 editingTask, chain, eventsPass, tasksPass>>

\* What readContract(getTask, id) answers with: the ledger's record, or a
\* rejection, which the per-id catch turns into null.
ReadTask(id, ok) ==
  IF ok /\ id \in DOMAIN chainTasks THEN chainTasks[id] ELSE Null

Pending(p) == Range(passes[p].ids) \ DOMAIN passes[p].results

\* One point-read answers. The last answer resolves Promise.all.
ReadAnswer(p, id, ok) ==
  /\ passes[p].pc = "reads"
  /\ id \in Pending(p)
  /\ LET results == (id :> ReadTask(id, ok)) @@ passes[p].results
     IN  IF Pending(p) = {id}
         THEN /\ passes' = [passes EXCEPT ![p].pc = "done", ![p].results = results]
              /\ FinishPass(p, passes[p].ids, results)
         ELSE /\ passes' = [passes EXCEPT ![p].results = results]
              /\ UNCHANGED <<tasks, tasksPass, loading, writes>>
  /\ UNCHANGED <<account, walletClient, events, newTaskDescription, editingTask,
                 error, chain, eventsPass>>

\* The account is set (checkConnection or connectWallet) and the effect on
\* [account] starts a load.
SetAccount ==
  /\ nLoads < MaxLoads
  /\ nLoads < Len(AccountList)
  /\ account' = AccountList[nLoads + 1]
  /\ walletClient' = Wallet
  /\ passes' = [passes EXCEPT ![nPasses + 1] = BeginPass(0)]
  /\ loading' = TRUE
  /\ UNCHANGED <<tasks, events, newTaskDescription, editingTask, error, chain,
                 writes, eventsPass, tasksPass>>

\* ---------------------------------------------------------- the ledger
\* Whether the contract would carry out the call of write w now.
Applicable(kind, id) ==
  CASE kind = "create" -> TRUE
    [] kind = "update" -> id \in DOMAIN chainTasks
    [] kind = "complete" -> id \in DOMAIN chainTasks /\ ~chainTasks[id].completed

NextBlock == Len(chainLogs) + 1

\* The effect of a mined, successful transaction of write w.
Apply(w) ==
  LET r == writes[w]
      newId == Len(chainTasks) + 1
  IN  CASE r.kind = "create" ->
             /\ chainTasks' = Append(chainTasks,
                  [id |-> newId, description |-> r.description, completed |-> FALSE])
             /\ chainLogs' = Append(chainLogs,
                  CreatedLog(newId, r.description, NextBlock, w))
        [] r.kind = "update" ->
             /\ chainTasks' = [chainTasks EXCEPT ![r.id].description = r.description]
             /\ chainLogs' = Append(chainLogs,
                  UpdatedLog(r.id, r.description, NextBlock, w))
        [] r.kind = "complete" ->
             /\ chainTasks' = [chainTasks EXCEPT ![r.id].completed = TRUE]
             /\ chainLogs' = Append(chainLogs, CompletedLog(r.id, NextBlock, w))

\* The submitted transaction of write w is mined, with or without effect.
Mine(w, ok) ==
  /\ writes[w].tx = "pending"
  /\ IF ok /\ Applicable(writes[w].kind, writes[w].id)
     THEN /\ Apply(w)
          /\ writes' = [writes EXCEPT ![w].tx = "success"]
     ELSE /\ UNCHANGED chain
          /\ writes' = [writes EXCEPT ![w].tx = "reverted"]
  /\ UNCHANGED <<view, passes, eventsPass, tasksPass>>

\* --------------------------------------------------- the write handlers
\* What the presentation layer lets through: the buttons are disabled while
\* loading (the create button also on a blank input); the Enter key handlers of
\* the two inputs call the handler directly.
RowOf(id) == {k \in 1..Len(tasks) : tasks[k].id = id}
EditRowShown == editingTask # Null /\ RowOf(editingTask.id) # {}
ButtonRowShown(id) ==
  /\ \E k \in RowOf(id) : ~tasks[k].completed
  /\ IF editingTask = Null THEN TRUE ELSE editingTask.id # id

CreateOffered(via) ==
  /\ account # ""
  /\ via = "click" => (~loading /\ Trim(newTaskDescription) # <<>>)
UpdateOffered(via) ==
  /\ account # ""
  /\ EditRowShown
  /\ via = "click" => ~loading
CompleteOffered(id) ==
  /\ account # ""
  /\ ButtonRowShown(id)
  /\ ~loading

\* An entry guard that tests the input as typed, without trimming it.
CreateAcceptedUntrimmed == newTaskDescription # <<>> /\ walletClient # Null

\* The entry guards of the handlers (their first line).
CreateAccepted == Trim(newTaskDescription) # <<>> /\ walletClient # Null
UpdateAccepted ==
  editingTask # Null /\ Trim(editingTask.description) # <<>> /\ walletClient # Null
CompleteAccepted == walletClient # Null

\* A handler from its entry guard to its first await: setLoading(true),
\* setError(''), simulateContract issued with the arguments read now.
BeginWrite(kind, id, description) ==
  /\ nWrites < MaxWrites
  /\ writes' = [writes EXCEPT ![nWrites + 1] =
       [IdleWrite EXCEPT !.pc = "simulating", !.kind = kind, !.id = id,
                         !.description = description, !.calls = <<"simulate">>]]
  /\ loading' = TRUE
  /\ error' = NoError
  /\ UNCHANGED <<account, walletClient, tasks, events, newTaskDescription,
                 editingTask, chain, passes, eventsPass, tasksPass>>

\* The three handlers as functions of the state they close over, whoever
\* calls them: the entry guard, then the part up to the first await.
createTaskHandler ==
  IF CreateAccepted
  THEN BeginWrite("create", 0, Trim(newTaskDescription))
  ELSE UNCHANGED vars

updateTaskHandler ==
  IF UpdateAccepted
  THEN BeginWrite("update", editingTask.id, Trim(editingTask.description))
  ELSE UNCHANGED vars

completeTaskHandler(id) ==
  IF CompleteAccepted
  THEN BeginWrite("complete", id, <<>>)
  ELSE UNCHANGED vars

\* The handlers as the rendered page calls them.
createTask(via) == CreateOffered(via) /\ createTaskHandler
updateTask(via) == UpdateOffered(via) /\ updateTaskHandler
completeTask(id) == CompleteOffered(id) /\ completeTaskHandler(id)

\* A handler whose catch block also empties the view.
WriteFailsResetsView(w, message) ==
  /\ writes' = [writes EXCEPT ![w].pc = "failed",
                              ![w].reported = Failure(Prefix(writes[w].kind), message)]
  /\ error' = Failure(Prefix(writes[w].kind), message)
  /\ loading' = FALSE
  /\ tasks' = <<>>
  /\ events' = <<>>
  /\ UNCHANGED <<account, walletClient, newTaskDescription, editingTask, chain,
                 passes, eventsPass, tasksPass>>

\* The catch and finally blocks of a write handler.
WriteFails(w, message) ==
  /\ writes' = [writes EXCEPT ![w].pc = "failed",
                              ![w].reported = Failure(Prefix(writes[w].kind), message)]
  /\ error' = Failure(Prefix(writes[w].kind), message)
  /\ loading' = FALSE
  /\ UNCHANGED <<account, walletClient, tasks, events, newTaskDescription,
                 editingTask, chain, passes, eventsPass, tasksPass>>

\* simulateContract answers: writeContract(request) is issued.
SimulateOk(w) ==
  /\ writes[w].pc = "simulating"
  /\ Applicable(writes[w].kind, writes[w].id)
  /\ writes' = [writes EXCEPT ![w].pc = "submitting",
                              ![w].calls = Append(@, "submit")]
  /\ UNCHANGED <<view, chain, passes, eventsPass, tasksPass>>

SimulateFail(w, message) ==
  /\ writes[w].pc = "simulating"
  /\ WriteFails(w, message)

\* writeContract answers with the hash: waitForTransactionReceipt is issued.
SubmitOk(w) ==
  /\ writes[w].pc = "submitting"
  /\ writes' = [writes EXCEPT ![w].pc = "confirming", ![w].tx = "pending",
                              ![w].calls = Append(@, "awaitConfirmation")]
  /\ UNCHANGED <<view, chain, passes, eventsPass, tasksPass>>

SubmitFail(w, message) ==
  /\ writes[w].pc = "submitting"
  /\ WriteFails(w, message)

\* Whether the handler goes on after the receipt: nothing reads the receipt's
\* status, so it goes on for a mined transaction of either status.
ReceiptAccepted(status) == TRUE

\* The success-only step between the receipt and the reload.
ConsumeInput(kind) ==
  CASE kind = "create" -> newTaskDescription' = <<>> /\ UNCHANGED editingTask
    [] kind = "update" -> editingTask' = Null /\ UNCHANGED newTaskDescription
    [] kind = "complete" -> UNCHANGED <<newTaskDescription, editingTask>>

\* waitForTransactionReceipt answers with the receipt of the mined
\* transaction: the input is consumed and the reload begins.
ConfirmOk(w) ==
  /\ writes[w].pc = "confirming"
  /\ writes[w].tx \in {"success", "reverted"}
  /\ ReceiptAccepted(writes[w].tx)
  /\ ConsumeInput(writes[w].kind)
  /\ writes' = [writes EXCEPT ![w].pc = "refreshing", ![w].refresh = nPasses + 1,
                              ![w].calls = Append(@, "reload")]
  /\ passes' = [passes EXCEPT ![nPasses + 1] = BeginPass(w)]
  /\ loading' = TRUE
  /\ UNCHANGED <<account, walletClient, tasks, events, error, chain, eventsPass,
                 tasksPass>>

\* waitForTransactionReceipt rejects (timeout, transport).
ConfirmFail(w, message) ==
  /\ writes[w].pc = "confirming"
  /\ WriteFails(w, message)

\* ------------------------------------------------------- the two inputs
TypeNew(d) ==
  /\ account # ""
  /\ d # newTaskDescription
  /\ newTaskDescription' = d
  /\ UNCHANGED <<account, walletClient, tasks, events, editingTask, loading,
                 error, chain, passes, writes, eventsPass, tasksPass>>

StartEdit(id) ==
  /\ account # ""
  /\ ButtonRowShown(id)
  /\ \E k \in RowOf(id) :
       editingTask' = [id |-> id, description |-> tasks[k].description]
  /\ UNCHANGED <<account, walletClient, tasks, events, newTaskDescription,
                 loading, error, chain, passes, writes, eventsPass, tasksPass>>

TypeEdit(d) ==
  /\ account # ""
  /\ EditRowShown
  /\ d # editingTask.description
  /\ editingTask' = [editingTask EXCEPT !.description = d]
  /\ UNCHANGED <<account, walletClient, tasks, events, newTaskDescription,
                 loading, error, chain, passes, writes, eventsPass, tasksPass>>

CancelEdit ==
  /\ account # ""
  /\ EditRowShown
  /\ editingTask' = Null
  /\ UNCHANGED <<account, walletClient, tasks, events, newTaskDescription,
                 loading, error, chain, passes, writes, eventsPass, tasksPass>>

\* ------------------------------------------------------ specification
Ways == {"click", "enter"}
\* A ledger that already holds one open task when the page is opened.
SeededChainLogs == <<CreatedLog(1, <<"a">>, 1, 0)>>
SeededChainTasks == <<[id |-> 1, description |-> <<"a">>, completed |-> FALSE]>>
TaskIdSpace == 1..(Len(SeededChainTasks) + MaxWrites)

Next ==
  \/ SetAccount
  \/ \E p \in 1..MaxPasses : FetchLogsOk(p)
  \/ \E p \in 1..MaxPasses, m \in FetchErrors : FetchLogsFail(p, m)
  \/ \E p \in 1..MaxPasses, id \in TaskIdSpace, ok \in BOOLEAN : ReadAnswer(p, id, ok)
  \/ \E d \in NewDescs : TypeNew(d)
  \/ \E id \in TaskIdSpace : StartEdit(id)
  \/ \E d \in EditDescs : TypeEdit(d)
  \/ CancelEdit
  \/ \E via \in Ways : createTask(via)
  \/ \E via \in Ways : updateTask(via)
  \/ \E id \in TaskIdSpace : completeTask(id)
  \/ \E w \in 1..MaxWrites : SimulateOk(w)
  \/ \E w \in 1..MaxWrites, m \in SimulateErrors : SimulateFail(w, m)
  \/ \E w \in 1..MaxWrites : SubmitOk(w)
  \/ \E w \in 1..MaxWrites, m \in SubmitErrors : SubmitFail(w, m)
  \/ \E w \in 1..MaxWrites, ok \in BOOLEAN : Mine(w, ok)
  \/ \E w \in 1..MaxWrites : ConfirmOk(w)
  \/ \E w \in 1..MaxWrites, m \in ConfirmErrors : ConfirmFail(w, m)

Spec == Init /\ [][Next]_vars

\* ------------------------------------------ every ledger call answers
\* The page under the assumption that no call to the ledger hangs: each
\* awaited simulateContract, writeContract, waitForTransactionReceipt,
\* getLogs and readContract is eventually resolved or rejected.
SimulateAnswers(w) == SimulateOk(w) \/ \E m \in SimulateErrors : SimulateFail(w, m)
SubmitAnswers(w) == SubmitOk(w) \/ \E m \in SubmitErrors : SubmitFail(w, m)
ConfirmAnswers(w) == ConfirmOk(w) \/ \E m \in ConfirmErrors : ConfirmFail(w, m)
FetchAnswers(p) == FetchLogsOk(p) \/ \E m \in FetchErrors : FetchLogsFail(p, m)
ReadAnswers(p) == \E id \in TaskIdSpace, ok \in BOOLEAN : ReadAnswer(p, id, ok)

EveryCallAnswers ==
  /\ \A w \in 1..MaxWrites :
       /\ WF_vars(SimulateAnswers(w))
       /\ WF_vars(SubmitAnswers(w))
       /\ WF_vars(ConfirmAnswers(w))
  /\ \A p \in 1..MaxPasses :
       /\ WF_vars(FetchAnswers(p))
       /\ WF_vars(ReadAnswers(p))

\* Every step of the page except the retyping of an input: one description
\* is typed into the create input, an edit is saved as it was opened.
LiveDescs == {<<" ", "a">>}
NextLive ==
  \/ SetAccount
  \/ \E p \in 1..MaxPasses : FetchLogsOk(p)
  \/ \E p \in 1..MaxPasses, m \in FetchErrors : FetchLogsFail(p, m)
  \/ \E p \in 1..MaxPasses, id \in TaskIdSpace, ok \in BOOLEAN : ReadAnswer(p, id, ok)
  \/ \E d \in LiveDescs : TypeNew(d)
  \/ \E id \in TaskIdSpace : StartEdit(id)
  \/ \E via \in Ways : createTask(via)
  \/ \E via \in Ways : updateTask(via)
  \/ \E id \in TaskIdSpace : completeTask(id)
  \/ \E w \in 1..MaxWrites : SimulateOk(w)
  \/ \E w \in 1..MaxWrites, m \in SimulateErrors : SimulateFail(w, m)
  \/ \E w \in 1..MaxWrites : SubmitOk(w)
  \/ \E w \in 1..MaxWrites, m \in SubmitErrors : SubmitFail(w, m)
  \/ \E w \in 1..MaxWrites, ok \in BOOLEAN : Mine(w, ok)
  \/ \E w \in 1..MaxWrites : ConfirmOk(w)
  \/ \E w \in 1..MaxWrites, m \in ConfirmErrors : ConfirmFail(w, m)

SpecLive == Init /\ [][NextLive]_vars /\ EveryCallAnswers

\* ------------------------------------- the read path on an arbitrary log
\* One pass of loadTasksAndEvents, started by the account effect, over any
\* log the fetch can return: records of the three kinds, in any order, with
\* repeated ids and repeated block numbers.
LogIds == {1, 2}
LogBlocks == {10, 12}
LogRecords ==
  {CreatedLog(i, <<"a">>, b, 0) : i \in LogIds, b \in LogBlocks}
    \cup {UpdatedLog(i, <<"b">>, b, 0) : i \in LogIds, b \in LogBlocks}
    \cup {CompletedLog(i, b, 0) : i \in LogIds, b \in LogBlocks}
RECURSIVE LogsUpTo(_)
LogsUpTo(n) ==
  IF n = 0 THEN {<<>>}
  ELSE LET shorter == LogsUpTo(n - 1)
       IN  shorter \cup {Append(s, x) : s \in shorter, x \in LogRecords}
\* The transaction hash tells the records of a fetch apart: its position.
Hashed(logs) == [i \in 1..Len(logs) |-> [logs[i] EXCEPT !.transactionHash = i]]

ReadChainTasks ==
  <<[id |-> 1, description |-> <<"b">>, completed |-> FALSE],
    [id |-> 2, description |-> <<"a">>, completed |-> TRUE]>>

InitRead ==
  /\ account = AccountList[1]
  /\ walletClient = Wallet
  /\ tasks = <<>>
  /\ events = <<>>
  /\ newTaskDescription = <<>>
  /\ editingTask = Null
  /\ loading = TRUE
  /\ error = NoError
  /\ passes = [p \in 1..MaxPasses |-> IF p = 1 THEN BeginPass(0) ELSE IdlePass]
  /\ writes = [w \in 1..MaxWrites |-> IdleWrite]
  /\ eventsPass = 0
  /\ tasksPass = 0
  /\ chainLogs \in {Hashed(l) : l \in LogsUpTo(MaxLogs)}
  /\ chainTasks = ReadChainTasks

NextRead ==
  \/ FetchLogsOk(1)
  \/ \E m \in FetchErrors : FetchLogsFail(1, m)
  \/ \E id \in LogIds, ok \in BOOLEAN : ReadAnswer(1, id, ok)

SpecRead == InitRead /\ [][NextRead]_vars

\* ------------------------------------------- a ledger with a task
\* The same page opened on the seeded ledger, with the steps in which every
\* ledger call is answered: loading, creating and completing tasks.
InitSeeded ==
  /\ InitView
  /\ chainLogs = SeededChainLogs
  /\ chainTasks = SeededChainTasks

NextSeeded ==
  \/ SetAccount
  \/ \E p \in 1..MaxPasses : FetchLogsOk(p)
  \/ \E p \in 1..MaxPasses, id \in TaskIdSpace : ReadAnswer(p, id, TRUE)
  \/ \E d \in NewDescs : TypeNew(d)
  \/ \E via \in Ways : createTask(via)
  \/ \E id \in TaskIdSpace : completeTask(id)
  \/ \E w \in 1..MaxWrites : SimulateOk(w)
  \/ \E w \in 1..MaxWrites : SubmitOk(w)
  \/ \E w \in 1..MaxWrites : Mine(w, TRUE)
  \/ \E w \in 1..MaxWrites : ConfirmOk(w)

SpecSeeded == InitSeeded /\ [][NextSeeded]_vars

\* ------------------------------------ the handlers on arbitrary inputs
\* The entry guards read newTaskDescription, editingTask and walletClient.
\* Here the handlers are called directly, on every combination of a missing
\* or present signer with an empty, blank or filled input, and an accepted
\* write goes as far as the answer to its simulation.
GuardDescs == {<<>>, <<" ">>, <<" ", "a">>}
GuardEdits == {Null} \cup {[id |-> 1, description |-> d] : d \in GuardDescs}
LoadFailure == Failure("Failed to load tasks: ", "HTTP request failed")

InitGuard ==
  /\ walletClient \in {Null, Wallet}
  /\ account = IF walletClient = Null THEN "" ELSE AccountList[1]
  /\ tasks = <<>>
  /\ events = <<>>
  /\ newTaskDescription \in GuardDescs
  /\ editingTask \in GuardEdits
  /\ loading = FALSE
  /\ error \in {NoError, LoadFailure}
  /\ passes = [p \in 1..MaxPasses |-> IdlePass]
  /\ writes = [w \in 1..MaxWrites |-> IdleWrite]
  /\ eventsPass = 0
  /\ tasksPass = 0
  /\ chainLogs = InitChainLogs
  /\ chainTasks = InitChainTasks

NextGuard ==
  \/ createTaskHandler
  \/ updateTaskHandler
  \/ \E id \in TaskIdSpace : completeTaskHandler(id)
  \/ \E w \in 1..MaxWrites : SimulateOk(w)
  \/ \E w \in 1..MaxWrites, m \in SimulateErrors : SimulateFail(w, m)

SpecGuard == InitGuard /\ [][NextGuard]_vars

\* =============================================================== claims
InFlight(w) == writes[w].pc \in {"simulating", "submitting", "confirming", "refreshing"}
Writes == 1..MaxWrites
IdsOf(ts) == {ts[k].id : k \in 1..Len(ts)}
CreatedIds(logs) ==
  {logs[k].args.id : k \in {j \in 1..Len(logs) : logs[j].eventName = "TaskCreated"}}

\* C1: in every reachable state the visible tasks and the visible events were
\* written by the same read pass (or both are the initial snapshot); events are
\* never from a newer pass than tasks, nor the reverse.
C1_SnapshotIsOnePass == eventsPass = tasksPass

\* C2: at most one write intent is in a non-terminal phase (simulating,
\* submitted, confirming or awaiting its refresh) at any time.
C2_OneWriteInFlight == Cardinality({w \in Writes : InFlight(w)}) <= 1

\* C3: when a write whose transaction was confirmed successfully returns, the
\* store's tasks and events were both written by a pass started after the
\* confirmation (its own refresh pass or a later one), and the record the
\* transaction logged is in the event feed.
EffectVisible(w, feed) ==
  \E k \in 1..Len(chainLogs) :
    /\ chainLogs[k].transactionHash = w
    /\ ProcessEvent(chainLogs[k]) \in Range(feed)
C3_ReadYourWrite ==
  [][\A w \in Writes :
       (writes[w].pc = "refreshing" /\ writes'[w].pc = "done"
          /\ writes[w].tx = "success")
       => /\ eventsPass' >= writes[w].refresh
          /\ tasksPass' >= writes[w].refresh
          /\ EffectVisible(w, events')]_vars

\* C4: a write whose confirmation wait ends while its transaction is not mined
\* successfully (mined but reverted, or the wait timed out) ends in Failed: an
\* error is set, the new-task input and the edit session are not cleared, and
\* no read pass is started.
C4_UnconfirmedWriteFails ==
  [][\A w \in Writes :
       (writes[w].pc = "confirming" /\ writes'[w].pc # "confirming"
          /\ writes[w].tx # "success")
       => /\ writes'[w].pc = "failed"
          /\ error' # NoError
          /\ newTaskDescription' = newTaskDescription
          /\ editingTask' = editingTask
          /\ passes' = passes]_vars

\* C5: a write whose simulate step fails ends in Failed at once: submit was
\* not called and never is, no transaction and no refresh pass exist for it,
\* lastError carries the handler's prefix and the failure's message, and tasks
\* and events are unchanged.
SimulateFailed(w) == writes[w].pc = "failed" /\ writes[w].calls = <<"simulate">>
C5_SimulateFailure ==
  [][\A w \in Writes :
       /\ (writes[w].pc = "simulating" /\ writes'[w].pc \notin {"simulating", "submitting"})
          => /\ SimulateFailed(w)'
             /\ writes'[w].tx = "none" /\ writes'[w].refresh = 0
             /\ passes' = passes
             /\ error'.prefix = Prefix(writes[w].kind)
             /\ error'.message \in SimulateErrors
             /\ tasks' = tasks /\ events' = events
       /\ SimulateFailed(w) => writes'[w] = writes[w]]_vars
\* A write has failed at simulate with the revert reason shown while the store
\* holds a task, and nothing of that write reached the ledger.
C5_Witness ==
  \E w \in Writes :
    /\ SimulateFailed(w)
    /\ error = Failure(Prefix(writes[w].kind), "execution reverted")
    /\ tasks # <<>> /\ events # <<>>
    /\ \A k \in 1..Len(chainLogs) : chainLogs[k].transactionHash # w

\* C6: a write that fails at simulate, submit or confirmation (a mined but
\* reverted transaction included) assigns neither tasks nor events in any step
\* of its handler.
FailedWrite(w) ==
  \/ writes[w].pc = "failed"
  \/ writes[w].pc \in {"refreshing", "done"} /\ writes[w].tx = "reverted"
HandlerStep(w) ==
  \/ writes'[w].pc # writes[w].pc
  \/ /\ writes[w].refresh # 0
     /\ passes'[writes[w].refresh] # passes[writes[w].refresh]
C6_FailedWriteKeepsStore ==
  [][\A w \in Writes :
       (HandlerStep(w) /\ FailedWrite(w)') => (tasks' = tasks /\ events' = events)]_vars

\* ------------------------------------------ claims about the read path
Passes == 1..MaxPasses
FailedReads(p) == {i \in DOMAIN passes[p].results : passes[p].results[i] = Null}
WroteTasks(p) == passes[p].pc = "done" /\ tasksPass = p

\* C7: when every point-read of a pass succeeds, the ids of the tasks it wrote
\* are exactly the ids of the TaskCreated records of its fetch, each once;
\* ids seen only in TaskUpdated or TaskCompleted records are not materialized.
C7_TaskIdsAreCreatedIds ==
  \A p \in Passes :
    (WroteTasks(p) /\ FailedReads(p) = {})
    => /\ IdsOf(tasks) = CreatedIds(passes[p].logs)
       /\ Len(tasks) = Cardinality(CreatedIds(passes[p].logs))
\* A pass has written tasks from a fetch holding a created id and a record of
\* another kind for an id that was never created, all reads having succeeded.
C7_Witness ==
  \E p \in Passes :
    /\ WroteTasks(p) /\ FailedReads(p) = {}
    /\ tasks # <<>>
    /\ \E k \in 1..Len(passes[p].logs) :
         /\ passes[p].logs[k].eventName # "TaskCreated"
         /\ passes[p].logs[k].args.id \notin CreatedIds(passes[p].logs)

\* C8: a pass in which exactly one point-read failed among N created ids has
\* issued and received all N reads, wrote exactly the N-1 tasks of the other
\* ids, and set no error.
C8_OneFailedReadDropsOneTask ==
  \A p \in Passes :
    /\ passes[p].pc = "reads" => Range(passes[p].ids) = CreatedIds(passes[p].logs)
    /\ (WroteTasks(p) /\ Cardinality(FailedReads(p)) = 1)
       => /\ DOMAIN passes[p].results = CreatedIds(passes[p].logs)
          /\ IdsOf(tasks) = CreatedIds(passes[p].logs) \ FailedReads(p)
          /\ Len(tasks) = Cardinality(CreatedIds(passes[p].logs)) - 1
          /\ error = NoError
\* A pass over two created ids has finished with one read failed and the
\* other task written.
C8_Witness ==
  \E p \in Passes :
    /\ WroteTasks(p)
    /\ Cardinality(CreatedIds(passes[p].logs)) = 2
    /\ Cardinality(FailedReads(p)) = 1
    /\ Len(tasks) = 1

\* C9: the event feed a pass wrote is non-increasing in blockNumber over its
\* whole length, and entries of equal blockNumber are in the order in which
\* the fetch returned their records.
WroteEvents(p) == passes[p].pc \in {"reads", "done"} /\ eventsPass = p
PositionIn(logs, e) == CHOOSE k \in 1..Len(logs) : ProcessEvent(logs[k]) = e
C9_FeedDescendingStable ==
  \A p \in Passes :
    WroteEvents(p) =>
      \A i, j \in 1..Len(events) :
        i < j =>
          /\ events[i].blockNumber >= events[j].blockNumber
          /\ events[i].blockNumber = events[j].blockNumber
             => PositionIn(passes[p].logs, events[i]) < PositionIn(passes[p].logs, events[j])
\* A feed of three entries was written from a fetch that was not in feed order
\* and held two records of one block.
C9_Witness ==
  \E p \in Passes :
    /\ WroteEvents(p)
    /\ Len(events) = 3
    /\ events # ProcessEvents(passes[p].logs)
    /\ \E i, j \in 1..Len(events) : i < j /\ events[i].blockNumber = events[j].blockNumber

\* C10: every feed entry made from a TaskCreated or TaskUpdated record carries
\* that record's description (and its type, id, blockNumber and
\* transactionHash), and an entry made from a TaskCompleted record has none.
Carries(e, log) ==
  /\ e.type = log.eventName /\ e.id = log.args.id
  /\ e.blockNumber = log.blockNumber /\ e.transactionHash = log.transactionHash
  /\ IF log.eventName = "TaskCompleted"
     THEN "description" \notin DOMAIN e
     ELSE "description" \in DOMAIN e /\ e.description = log.args.description
C10_FeedCarriesDescription ==
  \A p \in Passes :
    WroteEvents(p) =>
      \A k \in 1..Len(passes[p].logs) :
        \E i \in 1..Len(events) : Carries(events[i], passes[p].logs[k])

\* C11: when two read passes overlap, then once both have completed the
\* visible tasks and the visible events are the output of one and the same
\* pass, the one that completed last.  tasksPass is the pass that completed
\* last (a pass writes the tasks as its last step), so with no pass in flight
\* and two completed passes the store must hold what that pass made of the
\* logs it fetched and of the answers to its point reads.
PassInFlight(p) == passes[p].pc \in {"getLogs", "reads"}
Completed(p) == passes[p].pc = "done"
C11_LastCompletedPassWins ==
  (/\ \A p \in Passes : ~PassInFlight(p)
   /\ Cardinality({p \in Passes : Completed(p)}) >= 2)
  => /\ Completed(tasksPass)
     /\ tasks = ValidTasks(passes[tasksPass].ids, passes[tasksPass].results)
     /\ events = SortEvents(ProcessEvents(passes[tasksPass].logs))

\* C12: a create or update intent whose description is empty or only
\* whitespace, and any write intent issued with no signer connected, is
\* rejected at the handler's entry: no write begins (so no simulate, submit or
\* confirmation call is issued), and a step in which no write begins or
\* advances leaves loading, error, tasks and events as they were.
Begins(w) == writes[w].pc = "idle" /\ writes'[w].pc # "idle"
GuardHeld(kind) ==
  /\ walletClient # Null
  /\ kind = "create" => Trim(newTaskDescription) # <<>>
  /\ kind = "update" =>
       IF editingTask = Null THEN FALSE ELSE Trim(editingTask.description) # <<>>
C12_EntryGuards ==
  [][/\ \A w \in Writes :
          Begins(w) => /\ GuardHeld(writes'[w].kind)
                       /\ writes'[w].calls = <<"simulate">>
                       /\ Trim(writes'[w].description) = writes'[w].description
                       /\ writes'[w].kind # "complete" => writes'[w].description # <<>>
     /\ writes' = writes => UNCHANGED <<loading, error, tasks, events>>]_vars
\* A complete intent was accepted and failed while both inputs hold only
\* whitespace: create and update are rejected here, with a free write slot.
C12_Witness ==
  /\ walletClient # Null
  /\ newTaskDescription = <<" ">>
  /\ editingTask # Null
  /\ IF editingTask = Null THEN FALSE ELSE editingTask.description = <<" ">>
  /\ nWrites = 1
  /\ writes[1].kind = "complete" /\ writes[1].pc = "failed"
  /\ error # NoError /\ ~loading

\* C13: the error a failed write reports tells a failure of the simulation
\* from a failure of the submission or of the confirmation wait: a write that
\* failed in simulation and a write that failed at a later stage never
\* reported the same error value.
LastCall(w) == writes[w].calls[Len(writes[w].calls)]
FailedAt(w, stages) == writes[w].pc = "failed" /\ LastCall(w) \in stages
C13_ErrorTellsStage ==
  \A w1, w2 \in Writes :
    (FailedAt(w1, {"simulate"}) /\ FailedAt(w2, {"submit", "awaitConfirmation"}))
      => writes[w1].reported # writes[w2].reported

\* C14: when the log fetch of a read pass is rejected, that step puts the
\* failure into error, leaves tasks and events as they were and clears
\* loading; the pass has issued no point read and never issues one.
FetchFailed(p) == passes[p].pc = "getLogs" /\ passes'[p].pc = "failed"
C14_FetchFailure ==
  [][\A p \in Passes :
       /\ FetchFailed(p) =>
            /\ error'.prefix = "Failed to load tasks: "
            /\ error'.message \in FetchErrors
            /\ passes'[p].ids = <<>> /\ passes'[p].results = <<>>
            /\ tasks' = tasks /\ events' = events
            /\ ~loading'
       /\ passes[p].pc = "failed" => passes'[p] = passes[p]]_vars
\* The refresh pass of a write failed at its log fetch while the store held a
\* loaded task and its feed entry.
C14_Witness ==
  \E p \in Passes :
    /\ passes[p].pc = "failed" /\ passes[p].owner # 0
    /\ tasks # <<>> /\ events # <<>>
    /\ error.prefix = "Failed to load tasks: "
    /\ ~loading

\* C15: a read pass that follows another with no change of the ledger in
\* between (it fetches the same log records and gets the same answers to its
\* point reads) writes the same events and the same tasks as the one before:
\* what a pass writes does not depend on what the store held.
SameLogs(p, q) == passes'[q].logs = passes[p].logs
SameAnswers(p, q) ==
  passes'[q].ids = passes[p].ids /\ passes'[q].results = passes[p].results
C15_ReadIdempotent ==
  [][\A p, q \in Passes :
       (p # q /\ Completed(p)) =>
         /\ (eventsPass = p /\ eventsPass' = q /\ SameLogs(p, q))
              => events' = events
         /\ (tasksPass = p /\ tasksPass' = q /\ SameLogs(p, q) /\ SameAnswers(p, q))
              => tasks' = tasks]_vars
\* Two completed passes over the same non-empty log with the same answers,
\* the later one having written both halves of the store.
C15_Witness ==
  \E p, q \in Passes :
    /\ p < q /\ Completed(p) /\ Completed(q)
    /\ passes[p].logs = passes[q].logs /\ passes[p].logs # <<>>
    /\ passes[p].results = passes[q].results
    /\ eventsPass = q /\ tasksPass = q
    /\ tasks # <<>>

\* C16: in every reachable state the task list is strictly ascending by id,
\* so no id appears twice, also when the fetched log holds several
\* TaskCreated records for one id.
C16_TasksStrictlyAscending ==
  \A i, j \in 1..Len(tasks) : i < j => tasks[i].id < tasks[j].id
\* A completed pass over a log with two TaskCreated records of one id and a
\* TaskCreated record of a larger id fetched first; both tasks are shown.
C16_Witness ==
  /\ Completed(1) /\ tasksPass = 1
  /\ Len(tasks) = 2
  /\ \E i, j \in 1..Len(passes[1].logs) :
       /\ i < j
       /\ passes[1].logs[i].eventName = "TaskCreated"
       /\ passes[1].logs[j].eventName = "TaskCreated"
       /\ passes[1].logs[i].args.id = passes[1].logs[j].args.id
  /\ passes[1].logs[1].eventName = "TaskCreated" /\ passes[1].logs[1].args.id = 2

\* C17: the event feed a pass writes has exactly one entry for each raw log
\* record the pass fetched: as many entries as records, and for every record
\* exactly one entry with its event name, id, block number and transaction
\* hash.  Nothing is dropped and nothing is merged.
EntryOf(e, log) ==
  /\ e.type = log.eventName /\ e.id = log.args.id
  /\ e.blockNumber = log.blockNumber /\ e.transactionHash = log.transactionHash
C17_OneEntryPerRecord ==
  \A p \in Passes :
    WroteEvents(p) =>
      /\ Len(events) = Len(passes[p].logs)
      /\ \A k \in 1..Len(passes[p].logs) :
           Cardinality({i \in 1..Len(events) : EntryOf(events[i], passes[p].logs[k])}) = 1
\* A fetched log of three records, two of them alike in event name, id and
\* block number, the third a TaskCompleted record: three entries in the feed.
C17_Witness ==
  /\ WroteEvents(1)
  /\ Len(events) = 3
  /\ \E i, j, k \in 1..Len(passes[1].logs) :
       /\ i < j
       /\ passes[1].logs[i].eventName = passes[1].logs[j].eventName
       /\ passes[1].logs[i].args.id = passes[1].logs[j].args.id
       /\ passes[1].logs[i].blockNumber = passes[1].logs[j].blockNumber
       /\ passes[1].logs[k].eventName = "TaskCompleted"

\* C18: an accepted write goes through simulate, submit, confirmation wait and
\* refresh in that order, each at most once and each only after the one before
\* succeeded: its calls are a prefix of the four, its phase is the one its
\* last call belongs to, its one refresh pass exists exactly when the reload
\* was called, and the reload was called only for a transaction confirmed as
\* successful.
Lifecycle == <<"simulate", "submit", "awaitConfirmation", "reload">>
PhaseAfter(n) ==
  CASE n = 1 -> {"simulating", "failed"}
    [] n = 2 -> {"submitting", "failed"}
    [] n = 3 -> {"confirming", "failed"}
    [] n = 4 -> {"refreshing", "done"}
RefreshPasses(w) == {p \in Passes : passes[p].pc # "idle" /\ passes[p].owner = w}
InOrder(w) ==
  LET n == Len(writes[w].calls)
  IN  /\ n \in 1..4
      /\ writes[w].calls = SubSeq(Lifecycle, 1, n)
      /\ writes[w].pc \in PhaseAfter(n)
      /\ RefreshPasses(w) = IF n = 4 THEN {writes[w].refresh} ELSE {}
C18_LifecycleOrder ==
  \A w \in Writes :
    writes[w].pc # "idle" =>
      /\ InOrder(w)
      /\ Len(writes[w].calls) = 4 => writes[w].tx = "success"

\* C19: loading is TRUE in every state in which some write is in a
\* non-terminal phase or some read pass is in flight; the completion of one
\* operation does not clear it while another is still running.
C19_BusyWhileAnyRuns ==
  ((\E w \in Writes : InFlight(w)) \/ (\E p \in Passes : PassInFlight(p)))
    => loading

\* C20: the ledger's completed flag only goes from FALSE to TRUE, so the store
\* never takes a task it shows as completed back to not completed: no step
\* leads from a store where an id is completed to one where it is open.
ShownAs(ts, id, completed) ==
  \E k \in 1..Len(ts) : ts[k].id = id /\ ts[k].completed = completed
C20_CompletedNeverReopens ==
  [][\A id \in TaskIdSpace :
       ShownAs(tasks, id, TRUE) => ~ShownAs(tasks', id, FALSE)]_vars

\* C21: if every ledger call is eventually answered, every accepted write
\* eventually reaches done or failed, and in every state in which no write and
\* no read pass is in flight loading is FALSE.
Terminal(w) == writes[w].pc \in {"done", "failed"}
Quiet == (\A w \in Writes : ~InFlight(w)) /\ (\A p \in Passes : ~PassInFlight(p))
C21_EveryWriteEnds ==
  /\ \A w \in Writes : InFlight(w) ~> Terminal(w)
  /\ [](Quiet => ~loading)
\* Both writes were accepted and have ended, one through its refresh pass and
\* one by a failure, nothing is in flight and loading is FALSE.
C21_Witness ==
  /\ Quiet /\ ~loading
  /\ \E w1, w2 \in Writes : writes[w1].pc = "done" /\ writes[w2].pc = "failed"

\* C22: the inputs are consumed only by a confirmed write.  A step of a write
\* handler changes newTaskDescription or editingTask only when the
\* confirmation wait returns for a transaction confirmed as successful: a
\* create then empties newTaskDescription, an update then closes the edit
\* session; every other handler step, a failure at simulate, submit or
\* confirmation included, leaves both as they were.
Confirmed(w) ==
  /\ writes[w].pc = "confirming" /\ writes'[w].pc = "refreshing"
  /\ writes[w].tx = "success"
Consumes(kind) ==
  /\ newTaskDescription' = IF kind = "create" THEN <<>> ELSE newTaskDescription
  /\ editingTask' = IF kind = "update" THEN Null ELSE editingTask
C22_InputConsumedOnConfirm ==
  [][\A w \in Writes :
       writes'[w].pc # writes[w].pc =>
         IF Confirmed(w) THEN Consumes(writes[w].kind)
         ELSE UNCHANGED <<newTaskDescription, editingTask>>]_vars
====
